---------------------------- MODULE Spec2Model ----------------------------
(***************************************************************************)
(* Water Dots (src/water-dots.js): the bottom-band particle animator.      *)
(*                                                                         *)
(* Numbers.  The source computes in IEEE doubles; the model computes in    *)
(* fixed point on TLC's 32-bit integers, every product truncated toward    *)
(* zero:                                                                   *)
(*   lengths, velocities, scrollVelocity   1/1000 px            (PX)       *)
(*   noise values, smoothstep weights      1/10^8               (F)        *)
(*   noise-lattice coordinates             1/50000 cell         (Q)        *)
(*       (x * scale with scale = 0.02: 1/1000 px is 1/50000 cell, and the  *)
(*        source's eps = 0.001 px is exactly one unit)                     *)
(*   angles                                1/1000 rad                      *)
(*   time                                  1 ms                            *)
(***************************************************************************)
EXTENDS Integers, Sequences, FiniteSets

----------------------------------------------------------------------------
(* Fixed-point arithmetic                                                  *)

PX == 10 ^ 3
F == 10 ^ 8
LIMB == 10 ^ 4
Q == 50 * PX

Abs(a) == IF a < 0 THEN -a ELSE a
Sign(a) == IF a > 0 THEN 1 ELSE IF a < 0 THEN -1 ELSE 0
Min(a, b) == IF a < b THEN a ELSE b
Max(a, b) == IF a > b THEN a ELSE b

\* a / b truncated toward zero (b > 0)
TDiv(a, b) == IF a >= 0 THEN a \div b ELSE -((-a) \div b)

\* m * n / F for 0 <= m, n <= F, without leaving 32 bits: two limbs of 10^4
MulAbs(m, n) ==
  LET mh == m \div LIMB
      ml == m % LIMB
      nh == n \div LIMB
      nl == n % LIMB
  IN  mh * nh + (mh * nl + ml * nh + (ml * nl) \div LIMB) \div LIMB

\* the product of two F-scaled values, truncated toward zero
MulF(a, b) == Sign(a) * Sign(b) * MulAbs(Abs(a), Abs(b))

----------------------------------------------------------------------------
(* Field sampler: value noise and its rotated gradient (step, lines 89-123) *)

\* const eps = 0.001 (px): one lattice-coordinate unit
EPS == 1

\* rand2(ix, iy) = frac(sin(ix * 127.1 + iy * 311.7) * 43758.5453), F-scaled,
\* tabulated from the source's formula for the lattice corners LatticeLo..LatticeHi
LatticeLo == -1
LatticeHi == 12
Rand2Table ==
<< <<89531757, 67438857, 28552839, 85061467, 48202381, 11850900, 59752934, 88489254, 4704572, 19240505, 23552496, 19408709, 84000727, 8639466>>,
   <<18068826, 0, 81931173, 8614778, 59741702, 15891576, 62765157, 86749712, 23221223, 11900914, 23351034, 13226622, 18372436, 16310257>>,
   <<71447160, 32561142, 10468242, 48287847, 32266390, 44793364, 20617341, 86990052, 80448729, 74755346, 43810100, 48770319, 36605846, 38961376>>,
   <<24218857, 80903969, 80010708, 77996980, 75809896, 11589116, 54018798, 44748615, 63203073, 54316255, 50119960, 56633552, 46871393, 69435314>>,
   <<11387084, 72617698, 62970217, 73868266, 50909707, 40862858, 60175124, 19825281, 37268530, 85337525, 16847361, 96005867, 94237760, 54374222>>,
   <<68965421, 89471506, 77850282, 53466354, 5605261, 34466803, 2212388, 57767061, 99548175, 61616712, 55778595, 91957496, 31553553, 60355339>>,
   <<33207214, 51844646, 56238123, 85653985, 10751349, 67916698, 10174098, 90450801, 97761710, 82899115, 50063570, 42407883, 53910233, 75601881>>,
   <<53879881, 54491333, 98194650, 63417555, 66381948, 94019970, 5547239, 20532674, 69059845, 72911097, 10689876, 13420816, 2553773, 27108478>>,
   <<77387791, 38111006, 91785499, 73157879, 30334615, 6673218, 18068736, 96782800, 17354232, 30136406, 50573565, 11379467, 51589196, 33308421>>,
   <<18912337, 20580730, 82230939, 59815915, 41817796, 73886608, 91476020, 90822856, 92627322, 59191942, 38560670, 1849857, 81768428, 4936299>>,
   <<23017147, 23249168, 94876339, 79237833, 62046075, 82900764, 35707012, 45372508, 58004249, 33344533, 54463134, 8320432, 54918721, 76004750>>,
   <<36758506, 2618656, 74967615, 7993657, 47846227, 35795153, 18750008, 16883627, 82927011, 22465048, 3053564, 59149149, 20742106, 53831155>>,
   <<98976744, 73711687, 64953146, 84991322, 34580932, 89991424, 23453019, 94145434, 21007291, 62001545, 57056194, 93258544, 12903255, 15137806>>,
   <<97295320, 34331169, 20571225, 46127808, 99440299, 65259539, 17339170, 39821057, 37065364, 82458786, 4856538, 46073270, 82194694, 72981061>> >>

rand2(ix, iy) == Rand2Table[ix - LatticeLo + 1][iy - LatticeLo + 1]

\* smoothstep(0, 1, x) for an F-scaled x in [0, 1]: t*t*(3 - 2t) = t2 + 2*(t2 - t3)
smoothstep(x) ==
  LET t  == Max(0, Min(F, x))
      t2 == MulF(t, t)
  IN  t2 + 2 * (t2 - MulF(t2, t))

lerp(a, b, t) == a + MulF(b - a, t)

\* valueNoise at the lattice coordinates (nx, ny) = (x*scale + tm, y*scale + tm*0.7),
\* in units of 1/Q cell; the result is F-scaled, in [-1, 1]
noiseAt(nx, ny) ==
  LET x0 == nx \div Q
      y0 == ny \div Q
      xf == (nx % Q) * (F \div Q)
      yf == (ny % Q) * (F \div Q)
      u  == smoothstep(xf)
      v  == smoothstep(yf)
      n00 == rand2(x0, y0)
      n10 == rand2(x0 + 1, y0)
      n01 == rand2(x0, y0 + 1)
      n11 == rand2(x0 + 1, y0 + 1)
      nx0 == lerp(n00, n10, u)
      nx1 == lerp(n01, n11, u)
  IN  lerp(nx0, nx1, v) * 2 - F

\* valueNoise(x, y, tm): x, y in 1/1000 px, tm in 1/Q cell
valueNoise(x, y, tm) == noiseAt(x + tm, y + TDiv(tm * 7, 10))

\* curl(x, y, tm): the source names the difference along y "dx" and the one
\* along x "dy", and returns {x: dy, y: -dx}.  F-scaled, per px: 1/(2*eps) = 500.
curl(x, y, tm) ==
  LET n1 == valueNoise(x, y + EPS, tm)
      n2 == valueNoise(x, y - EPS, tm)
      n3 == valueNoise(x + EPS, y, tm)
      n4 == valueNoise(x - EPS, y, tm)
      dx == (n1 - n2) * (PX \div (2 * EPS))
      dy == (n3 - n4) * (PX \div (2 * EPS))
  IN  [x |-> dy, y |-> -dx]

----------------------------------------------------------------------------
(* Program constants (lines 5-12) and the constants of step                 *)

HEIGHT_PX == 96
CELL_X == 4
CELL_Y == 6
\* DAMPING = 0.92, in hundredths
DAMPING == 92
\* MOUSE_INFLUENCE, px
MOUSE_INFLUENCE == 90
\* MOUSE_STRENGTH = 0.16, in hundredths
MOUSE_STRENGTH == 16
\* the interaction timers' delay, ms (lines 61, 69)
INTERACTION_MS == 180
\* waveLen = 120 px (line 87)
waveLen == 120
\* 2*pi and pi in 1/1000 rad
TWO_PI == 6283
PI == 3142
\* the default pointer position, px (line 17)
MOUSE_FAR == -9999

----------------------------------------------------------------------------
(* Math.sin, Math.sqrt                                                      *)

\* sin of an angle a in [0, pi] (1/1000 rad), in 1/10000: Bhaskara's
\* 16 a (pi - a) / (5 pi^2 - 4 a (pi - a)), within 0.002 of the sine
SinHalf(a) ==
  LET p == a * (PI - a)
  IN  Min(10000, (4 * p * 100) \div ((5 * PI * PI - 4 * p) \div 400))

\* Math.sin(a) for any angle a in 1/1000 rad; the result in 1/10000
Sin(a) ==
  LET r == a % TWO_PI
  IN  IF r < PI THEN SinHalf(r) ELSE -SinHalf(Min(PI, r - PI))

\* a*a + b*b for a, b in 1/1000 px as <<k, r>>: k px^2 and r (1/1000 px)^2,
\* 0 <= r < 10^6
Dist2(a, b) ==
  LET ah == a \div PX
      al == a % PX
      bh == b \div PX
      bl == b % PX
      lo == 2 * PX * (ah * al + bh * bl) + al * al + bl * bl
  IN  <<ah * ah + bh * bh + lo \div (PX * PX), lo % (PX * PX)>>

\* whether m*m <= d for d = <<k, r>> as Dist2 gives it, m >= 0 in 1/1000 px
SqLeq(m, d) ==
  LET s == Dist2(m, 0)
  IN  s[1] < d[1] \/ (s[1] = d[1] /\ s[2] <= d[2])

\* floor(sqrt(d)) in 1/1000 px, between lo and hi, by bisection
RECURSIVE SqrtIn(_, _, _)
SqrtIn(d, lo, hi) ==
  IF lo >= hi THEN lo
  ELSE LET mid == (lo + hi + 1) \div 2
       IN  IF SqLeq(mid, d) THEN SqrtIn(d, mid, hi) ELSE SqrtIn(d, lo, mid - 1)

\* <<q, r>> with a*b = q*c + r and 0 <= r < c, for a, b >= 0 and 0 < c < 7*10^8
RECURSIVE MulDivRem(_, _, _)
MulDivRem(a, b, c) ==
  IF b = 0 THEN <<0, 0>>
  ELSE LET h == MulDivRem(a, b \div 2, c)
           e == b % 2
           s == 2 * h[2] + e * (a % c)
       IN  <<2 * h[1] + e * (a \div c) + s \div c, s % c>>

\* a * b / c truncated toward zero (c > 0)
MulDiv(a, b, c) == Sign(a) * Sign(b) * MulDivRem(Abs(a), Abs(b), c)[1]

----------------------------------------------------------------------------
(* Bounds of the model and the inputs the environment draws from           *)

\* the latest instant (ms) an input event or a frame of Spec happens at
MaxTime == 200
\* the number of frames (steps after init's) Spec runs
MaxSteps == 2
\* the number of input events (resize, scroll, mousemove, touchmove) of Spec
MaxEvents == 2

\* Math.random(), in thousandths: a stream is the sequence of the values the
\* successive calls return (repeated when it runs out)
RandomStreams == { <<0, 0, 0>>, <<999, 500, 250, 0>> }

\* <<window.innerWidth, window.innerHeight>>, px: bands of 1 and 2 particles
Viewports == { <<4, 43>>, <<7, 40>> }

\* window.pageYOffset, px
ScrollOffsets == { 10, 40 }

\* the time between two instants of the model, ms
TickSteps == { 100 }

----------------------------------------------------------------------------
(* State                                                                    *)

VARIABLES
  mounted,        \* init() has run (DOMContentLoaded)
  listening,      \* the window listeners are attached (until beforeunload)
  canvas,         \* the canvas element exists
  ctx,            \* canvas.getContext('2d') gave a context (not null)
  innerWidth,     \* window.innerWidth, px
  innerHeight,    \* window.innerHeight, px
  width,          \* px
  height,         \* px
  particles,      \* sequence of [x, y, vx, vy, baseX, baseY, phase]
  rafPending,     \* the callback requested under rafId has not run yet
  pendingFrames,  \* the animation callbacks of step requested and not yet run or cancelled
  pageYOffset,    \* window.pageYOffset, px
  lastScrollY,    \* px
  scrollVelocity, \* 1/1000 px
  mouse,          \* [x, y], 1/1000 px
  hasRecentInteraction,
  scrollTimer,    \* onScroll._t: the instant it fires at, or -1
  mouseTimer,     \* onMouseMove._t: the instant it fires at, or -1
  now,            \* the clock, ms
  frameAt,        \* the instant the latest step ran at, or -1
  steps,          \* history: the frames run so far
  events,         \* history: the input events so far
  lastInteractionAt, \* history: the instant of the latest scroll or mousemove, or -1
  last,           \* history: what the latest operation was and what it computed
  probe,          \* the field sampler's probe (SpecFlow)
  hs,             \* hs-scroller.js: the scroll-pinned narrative (SpecScroller)
  audio           \* web/audio.ts: the AudioManager's rate limits (SpecAudio)

vars == <<mounted, listening, canvas, ctx, innerWidth, innerHeight, width, height,
          particles, rafPending, pageYOffset, lastScrollY, scrollVelocity, mouse,
          hasRecentInteraction, scrollTimer, mouseTimer, now, frameAt, steps, events,
          lastInteractionAt, last, probe, pendingFrames, hs, audio>>

env == <<innerWidth, innerHeight, pageYOffset>>
dom == <<canvas, ctx, width, height>>
mode == <<lastScrollY, scrollVelocity, mouse, hasRecentInteraction>>
timers == <<scrollTimer, mouseTimer>>
raf == <<rafPending, pendingFrames>>
other == <<probe, hs, audio>>

\* what an operation other than step leaves in last
Did(op) == [op |-> op, time |-> 0, sv |-> 0, waveAmp |-> 0, active |-> FALSE,
            recent |-> FALSE, before |-> <<>>, kicks |-> <<>>,
            flow |-> FALSE, restore |-> FALSE, threw |-> FALSE]

\* the handler op ended in an uncaught TypeError (line 34, ctx is null)
Threw(op) == [Did(op) EXCEPT !.threw = TRUE]

----------------------------------------------------------------------------
(* setupCanvas and createParticles (lines 20-48)                            *)

\* Math.floor(Math.min(HEIGHT_PX, window.innerHeight * 0.14))
BandHeight(ih) == Min(HEIGHT_PX, (ih * 14) \div 100)

\* a faulty variant: Math.floor in place of Math.ceil
CeilDiv_Floor(a, b) == a \div b

\* a faulty variant: one more than the floor, which is the ceiling only when b
\* does not divide a
CeilDiv_FloorPlusOne(a, b) == (a \div b) + 1

\* Math.ceil(a / b) for a >= 0, b > 0
CeilDiv(a, b) == (a + b - 1) \div b

\* the k-th value Math.random() returns (k = 1, 2, ...), in thousandths
Draw(stream, k) == stream[((k - 1) % Len(stream)) + 1]

\* (Math.random() - 0.5) * 1.5, in 1/1000 px
Jitter(r) == TDiv((r - 500) * 3, 2)

\* the particle of row ry, column cx, the i-th pushed (i = 0, 1, ...)
NewParticle(cx, ry, i, stream) ==
  LET x == cx * CELL_X * PX + Jitter(Draw(stream, 3 * i + 1))
      y == ry * CELL_Y * PX + Jitter(Draw(stream, 3 * i + 2))
  IN  [x |-> x, y |-> y, vx |-> 0, vy |-> 0, baseX |-> x, baseY |-> y,
       phase |-> (Draw(stream, 3 * i + 3) * TWO_PI) \div 1000]

\* a faulty variant: without line 38 (particles = []) the new particles are
\* pushed after the old ones
createParticles_Append(w, h, stream) ==
  particles \o [i \in 1..(CeilDiv(w, CELL_X) * CeilDiv(h, CELL_Y)) |->
                 NewParticle((i - 1) % CeilDiv(w, CELL_X),
                             (i - 1) \div CeilDiv(w, CELL_X), i - 1, stream)]

\* createParticles(): rows outside, columns inside
createParticles(w, h, stream) ==
  LET cols == CeilDiv(w, CELL_X)
      rows == CeilDiv(h, CELL_Y)
  IN  [i \in 1..(cols * rows) |->
         NewParticle((i - 1) % cols, (i - 1) \div cols, i - 1, stream)]

----------------------------------------------------------------------------
(* step (lines 78-181), per particle                                        *)

\* faulty variants of WaveAmp: the base amplitude 2 forgotten; max for min
WaveAmp_NoBase(scrollAbs) ==
  IF scrollAbs > 200 THEN Min(14 * PX, scrollAbs \div 2) ELSE 0
WaveAmp_Max(scrollAbs) ==
  IF scrollAbs > 200 THEN Max(14 * PX, scrollAbs \div 2 + 2 * PX) ELSE 0

\* a faulty variant of WaveAmp: the gate at 0.2 forgotten
WaveAmp_Ungated(scrollAbs) == Min(14 * PX, scrollAbs \div 2 + 2 * PX)

\* const waveAmp = scrollAbs > 0.2 ? Math.min(14, scrollAbs * 0.5 + 2) : 0
WaveAmp(scrollAbs) ==
  IF scrollAbs > 200 THEN Min(14 * PX, scrollAbs \div 2 + 2 * PX) ELSE 0

\* (p.x + t * 140) / waveLen + p.phase with t = time * 0.0015, in 1/1000 rad
WaveAngle(p, time) == TDiv(p.x + 210 * time, waveLen) + p.phase

\* const targetY = p.baseY + (waveAmp === 0 ? 0 : Math.sin(...) * waveAmp)
TargetY(p, time, waveAmp) ==
  p.baseY + (IF waveAmp = 0 THEN 0
             ELSE TDiv(Sin(WaveAngle(p, time)) * waveAmp, 10000))

\* scrollAbs > 0.2 || hasRecentInteraction
FlowOn(scrollAbs, active) == scrollAbs > 200 \/ active

\* a faulty variant: the restore gated by the scroll speed alone
RestoreOn_Slow(scrollAbs, active) == scrollAbs <= 200

\* scrollAbs <= 0.2 && !hasRecentInteraction
RestoreOn(scrollAbs, active) == scrollAbs <= 200 /\ ~active

\* const tm = t * (1 + scrollAbs * 0.4), in 1/Q cell: t = time * 0.0015 is 75 * time
FlowTime(time, scrollAbs) == 75 * time + (3 * time * scrollAbs) \div 100

\* const flowScale = Math.min(3, 0.6 + scrollAbs * 0.12), in thousandths
FlowScale(scrollAbs) == Min(3000, 600 + (scrollAbs * 12) \div 100)

\* an F-scaled flow component times a scale in thousandths, in 1/1000 px
Scaled(f, scale) == TDiv(TDiv(f, 100) * scale, 1000000)

\* a faulty variant: the flow biased along the scroll direction
FlowPush_Along(f, sv, flowScale) ==
  [x |-> Scaled(f.x + Sign(sv) * Abs(f.x), flowScale),
   y |-> Scaled(f.y, TDiv(flowScale * 6, 10))]

\* lines 137-138: what the flow f adds to ax and ay
FlowPush(f, sv, flowScale) ==
  [x |-> Scaled(f.x - Sign(sv) * Abs(f.x), flowScale),
   y |-> Scaled(f.y, TDiv(flowScale * 6, 10))]

\* a faulty variant of Restore: the spring's sign flipped
Restore_Away(p) ==
  [x |-> TDiv((p.x - p.baseX) * 8, 100), y |-> TDiv((p.y - p.baseY) * 6, 100)]

\* lines 144-145: what the restoring spring adds to ax and ay
Restore(p) ==
  [x |-> TDiv(-(p.x - p.baseX) * 8, 100), y |-> TDiv(-(p.y - p.baseY) * 6, 100)]

Plus(u, v) == [x |-> u.x + v.x, y |-> u.y + v.y]

\* the acceleration [x, y] of lines 133-146
Accel(p, time, sv, active) ==
  Plus(IF FlowOn(Abs(sv), active)
       THEN FlowPush(curl(p.x, p.y, FlowTime(time, Abs(sv))), sv, FlowScale(Abs(sv)))
       ELSE [x |-> 0, y |-> 0],
       IF RestoreOn(Abs(sv), active) THEN Restore(p) ELSE [x |-> 0, y |-> 0])

\* mouse repel (lines 150-161): the vector [dx, dy] from the pointer to the
\* particle (1/1000 px), whether the pointer is within MOUSE_INFLUENCE, and the
\* velocity added, [kx, ky], in 1/10^6 px:
\*   (dx / dist) * strength * 6,  strength = (1 - dist / rad) * MOUSE_STRENGTH
\* a faulty variant of Push: the pointer attracts
Push_Toward(d, dist, rad) ==
  MulDiv(-d * MOUSE_STRENGTH * 6, rad - dist, dist * (rad \div 10000))

\* lines 156-159: (d / dist) * strength * 6 for one component d, in 1/10^6 px
Push(d, dist, rad) == MulDiv(d * MOUSE_STRENGTH * 6, rad - dist, dist * (rad \div 10000))

\* a faulty variant of Kick: the distance is not floored at 8 px (it is kept
\* from 0 only)
Kick_Unfloored(p, m, h, ih) ==
  LET rad == MOUSE_INFLUENCE * PX
      cy == (ih - h) * PX + p.y
      dx == p.x - m.x
      dy == cy - m.y
      near == /\ Abs(dx) < rad
              /\ Abs(dy) < rad
              /\ Dist2(dx, dy)[1] < MOUSE_INFLUENCE * MOUSE_INFLUENCE
      dist == Max(1, SqrtIn(Dist2(dx, dy), 0, rad))
  IN  [dx |-> dx, dy |-> dy, near |-> near,
       kx |-> IF near THEN Push(dx, dist, rad) ELSE 0,
       ky |-> IF near THEN Push(dy, dist, rad) ELSE 0]

Kick(p, m, h, ih) ==
  LET rad == MOUSE_INFLUENCE * PX
      cy == (ih - h) * PX + p.y
      dx == p.x - m.x
      dy == cy - m.y
      near == /\ Abs(dx) < rad
              /\ Abs(dy) < rad
              /\ Dist2(dx, dy)[1] < MOUSE_INFLUENCE * MOUSE_INFLUENCE
      dist == Max(8 * PX, SqrtIn(Dist2(dx, dy), 0, rad))
  IN  [dx |-> dx, dy |-> dy, near |-> near,
       kx |-> IF near THEN Push(dx, dist, rad) ELSE 0,
       ky |-> IF near THEN Push(dy, dist, rad) ELSE 0]

\* a faulty variant of Reflect: the position is not clamped
Reflect_NoClamp(pos, vel, limit) ==
  IF pos < 0 \/ pos > limit THEN <<pos, TDiv(-vel, 2)>> ELSE <<pos, vel>>

\* a faulty variant of Reflect: the velocity is turned round undiminished
Reflect_FullBounce(pos, vel, limit) ==
  IF pos < 0 THEN <<0, -vel>> ELSE IF pos > limit THEN <<limit, -vel>> ELSE <<pos, vel>>

\* soft bounds (lines 167-170) on one axis: <<position, velocity>>
Reflect(pos, vel, limit) ==
  LET a == IF pos < 0 THEN <<0, TDiv(-vel, 2)>> ELSE <<pos, vel>>
  IN  IF a[1] > limit THEN <<limit, TDiv(-a[2], 2)>> ELSE a

\* lines 130-131, 147-148 and 158-159: the velocity before integration, from
\* the wave's pull ay1, the acceleration a and the pointer's kick k
\* a faulty variant: the kick is added with the accelerations and damped with
\* them
Velocity_KickDamped(p, ay1, a, k) ==
  [x |-> TDiv((p.vx + a.x + TDiv(k.kx, 1000)) * DAMPING, 100),
   y |-> TDiv((TDiv((p.vy + ay1) * DAMPING, 100) + a.y + TDiv(k.ky, 1000)) * DAMPING,
              100)]

\* a faulty variant: one damping pass over the sum of the y accelerations
Velocity_OnePass(p, ay1, a, k) ==
  [x |-> TDiv((p.vx + a.x) * DAMPING, 100) + TDiv(k.kx, 1000),
   y |-> TDiv((p.vy + ay1 + a.y) * DAMPING, 100) + TDiv(k.ky, 1000)]

Velocity(p, ay1, a, k) ==
  [x |-> TDiv((p.vx + a.x) * DAMPING, 100) + TDiv(k.kx, 1000),
   y |-> TDiv((TDiv((p.vy + ay1) * DAMPING, 100) + a.y) * DAMPING, 100)
         + TDiv(k.ky, 1000)]

\* a faulty variant of Placed: the base follows the particle
Placed_Rebase(p, bx, by) ==
  [p EXCEPT !.x = bx[1], !.vx = bx[2], !.y = by[1], !.vy = by[2], !.baseX = bx[1]]

\* the particle with its two axes set to bx and by
Placed(p, bx, by) == [p EXCEPT !.x = bx[1], !.vx = bx[2], !.y = by[1], !.vy = by[2]]

\* lines 161-170: integrate, damp, bounce
Integrate(p, v, w, h) ==
  Placed(p, Reflect(p.x + v.x, TDiv(v.x * DAMPING, 100), w * PX),
            Reflect(p.y + v.y, TDiv(v.y * DAMPING, 100), h * PX))

\* one pass of the loop body (lines 126-170) over particle p
StepParticle(p, time, sv, active, m, w, h, ih) ==
  Integrate(p,
            Velocity(p, TDiv((TargetY(p, time, WaveAmp(Abs(sv))) - p.y) * 6, 100),
                     Accel(p, time, sv, active), Kick(p, m, h, ih)),
            w, h)

\* the loop of step over the particles ps
StepAll(ps, time, sv, active, m, w, h, ih) ==
  [i \in DOMAIN ps |-> StepParticle(ps[i], time, sv, active, m, w, h, ih)]

\* a faulty variant: scrollVelocity is left as it is
Decay_Keep(sv) == sv

\* scrollVelocity *= 0.9
Decay(sv) == TDiv(sv * 9, 10)

\* history: whether a scroll or mousemove happened less than 180 ms ago
Recent == lastInteractionAt >= 0 /\ now - lastInteractionAt < INTERACTION_MS

\* what step leaves in last: its argument, what it read and what it computed
DidStep(ps, time, h, ih) ==
  [op |-> "step", time |-> time, sv |-> scrollVelocity,
   waveAmp |-> WaveAmp(Abs(scrollVelocity)), active |-> hasRecentInteraction,
   recent |-> Recent, before |-> ps,
   kicks |-> [i \in DOMAIN ps |-> Kick(ps[i], mouse, h, ih)],
   flow |-> FlowOn(Abs(scrollVelocity), hasRecentInteraction),
   restore |-> RestoreOn(Abs(scrollVelocity), hasRecentInteraction),
   threw |-> FALSE]

----------------------------------------------------------------------------
(* Initial state: the script has run (lines 14-18, 190-209) with the        *)
(* document still loading; the listeners are attached, init is to come.     *)

NoProbe == [done |-> FALSE, x |-> 0, y |-> 0, tm |-> 0, div |-> 0,
            f |-> [x |-> 0, y |-> 0], grad |-> [x |-> 0, y |-> 0],
            sv |-> 0, scale |-> 0, push |-> [x |-> 0, y |-> 0]]

\* hs-scroller.js has not run (no .hs-section on the page, line 12)
NoScroller == [installed |-> FALSE, listening |-> FALSE, prefersReduced |-> FALSE,
               copies |-> <<>>, translateX |-> 0, dashoffset |-> 1000,
               progress |-> 0, applied |-> "none"]

\* the AudioManager as constructed (audio.ts lines 11-20), no call made yet
NoAudio == [available |-> FALSE, context |-> FALSE, lastCollisionAt |-> 0,
            lastScrollAt |-> 0, lastWaterAt |-> 0, nodes |-> 0,
            started |-> [collision |-> -1, scrollWhoosh |-> -1, waterPlop |-> -1],
            count |-> [collision |-> 0, scrollWhoosh |-> 0, waterPlop |-> 0],
            outcome |-> "none"]

\* a faulty variant: step requests two animation callbacks
RequestFrame_Twice(n) == n + 2

\* line 79, requestAnimationFrame(step): one more callback is pending
RequestFrame(n) == n + 1

Boot(vp) ==
  /\ mounted = FALSE
  /\ listening = TRUE
  /\ canvas = FALSE
  /\ ctx = FALSE
  /\ innerWidth = vp[1]
  /\ innerHeight = vp[2]
  /\ width = 0
  /\ height = 0
  /\ particles = <<>>
  /\ rafPending = FALSE
  /\ pageYOffset = 0
  /\ lastScrollY = 0
  /\ scrollVelocity = 0
  /\ mouse = [x |-> MOUSE_FAR * PX, y |-> MOUSE_FAR * PX]
  /\ hasRecentInteraction = FALSE
  /\ scrollTimer = -1
  /\ mouseTimer = -1
  /\ now = 0
  /\ frameAt = -1
  /\ steps = 0
  /\ events = 0
  /\ lastInteractionAt = -1
  /\ last = Did("boot")
  /\ pendingFrames = 0
  /\ hs = NoScroller
  /\ audio = NoAudio

Init == probe = NoProbe /\ \E vp \in Viewports : Boot(vp)

----------------------------------------------------------------------------
(* Operations                                                               *)

\* a timer whose delay has elapsed runs before anything else does
TimerDue ==
  \/ scrollTimer >= 0 /\ now >= scrollTimer
  \/ mouseTimer >= 0 /\ now >= mouseTimer

\* setupCanvas(): with ok, getContext('2d') gives a context.  Without a context
\* line 34 throws a TypeError (ctx is null): the caller's remaining statements
\* do not run.
setupCanvas(ok) ==
  /\ canvas' = TRUE
  /\ ctx' = IF canvas THEN ctx ELSE ok
  /\ width' = innerWidth'
  /\ height' = BandHeight(innerHeight')

\* init(): setupCanvas(); createParticles(); step(0)
InitMount(ok, stream) ==
  /\ ~mounted
  /\ ~TimerDue
  /\ mounted' = TRUE
  /\ UNCHANGED env
  /\ setupCanvas(ok)
  /\ IF ctx'
     THEN LET ps == createParticles(width', height', stream)
          IN  /\ rafPending' = TRUE
              /\ pendingFrames' = RequestFrame(pendingFrames)
              /\ particles' = StepAll(ps, 0, scrollVelocity, hasRecentInteraction,
                                      mouse, width', height', innerHeight)
              /\ scrollVelocity' = Decay(scrollVelocity)
              /\ frameAt' = now
              /\ last' = DidStep(ps, 0, height', innerHeight)
     ELSE /\ UNCHANGED <<raf, particles, scrollVelocity, frameAt>>
          /\ last' = Threw("init")
  /\ UNCHANGED <<listening, lastScrollY, mouse, hasRecentInteraction, timers, now,
                 steps, events, lastInteractionAt, other>>

\* the window is resized to vp; onResize(): setupCanvas(); createParticles()
Resize(vp, ok, stream) ==
  /\ listening
  /\ ~TimerDue
  /\ events < MaxEvents
  /\ events' = events + 1
  /\ innerWidth' = vp[1]
  /\ innerHeight' = vp[2]
  /\ setupCanvas(ok)
  /\ particles' = IF ctx' THEN createParticles(width', height', stream) ELSE particles
  /\ last' = IF ctx' THEN [Did("resize") EXCEPT !.before = particles]
              ELSE Threw("resize")
  /\ UNCHANGED <<mounted, listening, raf, pageYOffset, mode, timers, now,
                 frameAt, steps, lastInteractionAt, other>>

\* the page is scrolled to y; onScroll()
ScrollTo(y) ==
  /\ listening
  /\ ~TimerDue
  /\ pageYOffset' = y
  /\ scrollVelocity' = (y - lastScrollY) * PX
  /\ lastScrollY' = y
  /\ hasRecentInteraction' = TRUE
  /\ scrollTimer' = now + INTERACTION_MS
  /\ lastInteractionAt' = now
  /\ last' = Did("scroll")
  /\ UNCHANGED <<mounted, listening, dom, innerWidth, innerHeight, particles,
                 raf, mouse, mouseTimer, now, frameAt, steps, other>>

Scroll(y) ==
  /\ events < MaxEvents
  /\ events' = events + 1
  /\ ScrollTo(y)

\* a faulty variant: the handler itself pushes the particles
MouseMove_Pushes(x, y) ==
  /\ listening
  /\ ~TimerDue
  /\ events < MaxEvents
  /\ events' = events + 1
  /\ mouse' = [x |-> x * PX, y |-> y * PX]
  /\ hasRecentInteraction' = TRUE
  /\ mouseTimer' = now + INTERACTION_MS
  /\ lastInteractionAt' = now
  /\ last' = Did("mousemove")
  /\ particles' = [i \in DOMAIN particles |-> [particles[i] EXCEPT !.vx = @ + PX]]
  /\ UNCHANGED <<mounted, listening, dom, env, raf, lastScrollY,
                 scrollVelocity, scrollTimer, now, frameAt, steps, other>>

\* onMouseMove(e) with e.clientX, e.clientY = x, y (px)
MouseMove(x, y) ==
  /\ listening
  /\ ~TimerDue
  /\ events < MaxEvents
  /\ events' = events + 1
  /\ mouse' = [x |-> x * PX, y |-> y * PX]
  /\ hasRecentInteraction' = TRUE
  /\ mouseTimer' = now + INTERACTION_MS
  /\ lastInteractionAt' = now
  /\ last' = Did("mousemove")
  /\ UNCHANGED <<mounted, listening, dom, env, particles, raf, lastScrollY,
                 scrollVelocity, scrollTimer, now, frameAt, steps, other>>

\* onTouchMove(e): touches is the sequence of e.touches' <<clientX, clientY>>
TouchMove(touches) ==
  /\ listening
  /\ ~TimerDue
  /\ events < MaxEvents
  /\ events' = events + 1
  /\ mouse' = IF Len(touches) > 0
              THEN [x |-> touches[1][1] * PX, y |-> touches[1][2] * PX]
              ELSE mouse
  /\ last' = Did("touchmove")
  /\ UNCHANGED <<mounted, listening, dom, env, particles, raf, lastScrollY,
                 scrollVelocity, hasRecentInteraction, timers, now, frameAt, steps,
                 lastInteractionAt, other>>

\* the callback of line 61
ScrollTimerFire ==
  /\ scrollTimer >= 0
  /\ now >= scrollTimer
  /\ hasRecentInteraction' = FALSE
  /\ scrollTimer' = -1
  /\ last' = Did("timer")
  /\ UNCHANGED <<mounted, listening, dom, env, particles, raf, lastScrollY,
                 scrollVelocity, mouse, mouseTimer, now, frameAt, steps, events,
                 lastInteractionAt, other>>

\* the callback of line 69
MouseTimerFire ==
  /\ mouseTimer >= 0
  /\ now >= mouseTimer
  /\ hasRecentInteraction' = FALSE
  /\ mouseTimer' = -1
  /\ last' = Did("timer")
  /\ UNCHANGED <<mounted, listening, dom, env, particles, raf, lastScrollY,
                 scrollVelocity, mouse, scrollTimer, now, frameAt, steps, events,
                 lastInteractionAt, other>>

\* the earliest instant a pending timer fires at, or none before limit
NextDeadline(limit) ==
  LET a == IF scrollTimer >= 0 THEN Min(limit, scrollTimer) ELSE limit
  IN  IF mouseTimer >= 0 THEN Min(a, mouseTimer) ELSE a

\* time passes: dt ms, or up to the next timer
Pass(dt) ==
  /\ ~TimerDue
  /\ now' = NextDeadline(now + dt)
  /\ UNCHANGED <<mounted, listening, dom, env, particles, raf, mode, timers,
                 frameAt, steps, events, lastInteractionAt, last, other>>

Tick(dt) ==
  /\ now + dt <= MaxTime
  /\ Pass(dt)

\* the animation callback: step(time), time the frame's timestamp
Frame ==
  /\ rafPending
  /\ ~TimerDue
  /\ now > frameAt
  /\ rafPending' = TRUE
  /\ pendingFrames' = RequestFrame(pendingFrames - 1)
  /\ frameAt' = now
  /\ steps' = steps + 1
  /\ IF ctx
     THEN /\ particles' = StepAll(particles, now, scrollVelocity, hasRecentInteraction,
                                  mouse, width, height, innerHeight)
          /\ scrollVelocity' = Decay(scrollVelocity)
     ELSE UNCHANGED <<particles, scrollVelocity>>
  /\ last' = DidStep(particles, now, height, innerHeight)
  /\ UNCHANGED <<mounted, listening, dom, env, lastScrollY, mouse,
                 hasRecentInteraction, timers, now, events, lastInteractionAt, other>>

Step ==
  /\ steps < MaxSteps
  /\ Frame

\* the beforeunload listener (lines 203-209)
Unload ==
  /\ listening
  /\ ~TimerDue
  /\ listening' = FALSE
  /\ rafPending' = FALSE
  /\ pendingFrames' = IF rafPending THEN pendingFrames - 1 ELSE pendingFrames
  /\ last' = Did("unload")
  /\ UNCHANGED <<mounted, dom, env, particles, mode, timers, now, frameAt, steps,
                 events, lastInteractionAt, other>>

\* pointer positions <<clientX, clientY>>, px: in the band, right of its first
\* particle; and 30 px above the band, between its first two columns
Pointers == { <<10, innerHeight - height + 3>>, <<1, innerHeight - height - 30>> }

Next ==
  \/ \E ok \in BOOLEAN, stream \in RandomStreams : InitMount(ok, stream)
  \/ \E vp \in Viewports, ok \in BOOLEAN, stream \in RandomStreams : Resize(vp, ok, stream)
  \/ \E y \in ScrollOffsets : Scroll(y)
  \/ \E pt \in Pointers : MouseMove(pt[1], pt[2])
  \/ \E pt \in Pointers : TouchMove(<<pt>>)
  \/ TouchMove(<<>>)
  \/ ScrollTimerFire
  \/ MouseTimerFire
  \/ \E dt \in TickSteps : Tick(dt)
  \/ Step
  \/ Unload

Spec == Init /\ [][Next]_vars

----------------------------------------------------------------------------
(* Properties of the band under Spec                                        *)

\* the particle p lies in the band rectangle [0, width] x [0, height]
InBand(p) == 0 <= p.x /\ p.x <= width * PX /\ 0 <= p.y /\ p.y <= height * PX

\* C1: after every execution of step, every particle satisfies
\* 0 <= x <= width and 0 <= y <= height, whatever events came before.
C1_StepKeepsParticlesInBand ==
  last.op = "step" => \A i \in DOMAIN particles : InBand(particles[i])

\* a step has clamped a particle whose base lies left of the band onto the edge
C1_Witness ==
  /\ last.op = "step"
  /\ \E i \in DOMAIN particles :
       /\ last.before[i].x < 0
       /\ particles[i].x = 0
       /\ InBand(particles[i])

\* C2: at every step, interaction is active (hasRecentInteraction) exactly when
\* less than 180 ms have passed since the most recent scroll or pointer move.
C2_ActiveIffRecent == last.op = "step" => (last.active <=> last.recent)

\* C6 as stated: with scrollVelocity at 10, the step computes waveAmp = 14.
C6_WaveAmpAtTenIsCeiling ==
  (last.op = "step" /\ last.sv = 10 * PX) => last.waveAmp = 14 * PX

\* C6, amended: with scrollVelocity at 10 the step computes waveAmp = 7
\* (10 * 0.5 + 2); it computes the ceiling 14 exactly when |scrollVelocity| >= 24.
C6_WaveAmpAtTenIsSeven ==
  last.op = "step" =>
    /\ last.sv = 10 * PX => last.waveAmp = 7 * PX
    /\ last.waveAmp = 14 * PX <=> Abs(last.sv) >= 24 * PX

\* a step has run with scrollVelocity at 10, and one with the amplitude at 14
C6_Witness == last.op = "step" /\ last.sv = 10 * PX /\ last.waveAmp = 7 * PX

\* whether a*b + c*d > 0, exactly: each product as <<quotient, remainder>> by 10^6
SumPositive(a, b, c, d) ==
  LET s1 == Sign(a) * Sign(b)
      s2 == Sign(c) * Sign(d)
      m1 == MulDivRem(Abs(a), Abs(b), 1000000)
      m2 == MulDivRem(Abs(c), Abs(d), 1000000)
      more(m, n) == m[1] > n[1] \/ (m[1] = n[1] /\ m[2] > n[2])
  IN  CASE s1 >= 0 /\ s2 >= 0 -> s1 > 0 \/ s2 > 0
        [] s1 > 0 /\ s2 < 0 -> more(m1, m2)
        [] s1 < 0 /\ s2 > 0 -> more(m2, m1)
        [] OTHER -> FALSE

\* C8: whenever the pointer is at a distance d, 0 < d < 90 px, from a particle,
\* the velocity the pointer term adds to it in that step has a strictly
\* positive dot product with the vector from the pointer to the particle.
C8_KickPointsAway ==
  last.op = "step" =>
    \A i \in DOMAIN last.kicks :
      LET k == last.kicks[i]
      IN  (k.near /\ (k.dx # 0 \/ k.dy # 0)) => SumPositive(k.kx, k.dx, k.ky, k.dy)

\* a step has kicked a particle that the pointer was about 10 px from
C8_Witness ==
  /\ last.op = "step"
  /\ \E i \in DOMAIN last.kicks :
       LET k == last.kicks[i]
       IN  /\ k.near
           /\ Abs(k.dx) < 12 * PX /\ Abs(k.dy) < 12 * PX
           /\ k.kx # 0
           /\ particles[i].vx # 0

\* C9: every pointer-move event that updates the stored pointer position, mouse
\* or touch, restarts the 180 ms interaction window.
C9_PointerMoveRestartsWindow ==
  [][mouse' # mouse =>
       hasRecentInteraction' /\ (scrollTimer' = now + INTERACTION_MS
                                  \/ mouseTimer' = now + INTERACTION_MS)]_vars

\* the base position and the phase of each particle of ps are those of qs
SameBases(ps, qs) ==
  /\ DOMAIN ps = DOMAIN qs
  /\ \A i \in DOMAIN ps :
       /\ ps[i].baseX = qs[i].baseX
       /\ ps[i].baseY = qs[i].baseY
       /\ ps[i].phase = qs[i].phase

\* C10: every step, scroll event and pointer event leaves baseX, baseY and
\* phase of every particle as they were.
C10_BasesNeverChange ==
  [][/\ last'.op = "step" => SameBases(last'.before, particles')
     /\ last'.op \in {"scroll", "mousemove", "touchmove"} =>
          SameBases(particles, particles')]_vars

\* a step has moved a particle away from where it was, its base staying
C10_Witness ==
  /\ last.op = "step"
  /\ steps >= 1
  /\ \E i \in DOMAIN particles :
       /\ particles[i].x # last.before[i].x
       /\ particles[i].baseX = last.before[i].baseX
       /\ particles[i].baseX # particles[i].x

----------------------------------------------------------------------------
(* The field sampler on its own: the probe is put at a point of the band   *)
(* and the divergence of curl is measured there by central differences.    *)

\* sample points (1/1000 px) and flow times (1/Q cell)
ProbeXs == { 1000, 3000, 10000, 25000, 40000, 60000, 100000, 150000, 200000, 300000 }
ProbeYs == { 1000, 2000, 5000, 10000, 20000, 35000, 50000, 65000, 80000, 95000 }
ProbeTimes == { 0, 22500, 65000 }

\* d(f.x)/dx + d(f.y)/dy of f = curl(., ., tm) at (x, y) by central differences
\* over 1 px; F-scaled, per px^2
Divergence(x, y, tm) ==
  TDiv((curl(x + PX, y, tm).x - curl(x - PX, y, tm).x)
       + (curl(x, y + PX, tm).y - curl(x, y - PX, tm).y), 2)

\* the central-difference gradient of the noise at (x, y): x the difference
\* quotient along x (samples at x + eps, x - eps), y the one along y; F-scaled,
\* per px
Gradient(x, y, tm) ==
  [x |-> (valueNoise(x + EPS, y, tm) - valueNoise(x - EPS, y, tm)) * (PX \div (2 * EPS)),
   y |-> (valueNoise(x, y + EPS, tm) - valueNoise(x, y - EPS, tm)) * (PX \div (2 * EPS))]

\* values of scrollVelocity (1/1000 px) the flow branch is sampled with
ProbeScrolls == { -30000, -100, 0, 150, 10000, 40000 }

InitFlow ==
  /\ Boot(<<4, 43>>)
  /\ \E x \in ProbeXs, y \in ProbeYs, tm \in ProbeTimes :
       \E sv \in ProbeScrolls :
         probe = [NoProbe EXCEPT !.x = x, !.y = y, !.tm = tm, !.sv = sv]

\* the field is sampled around the probe
Sample ==
  /\ ~probe.done
  /\ probe' = [probe EXCEPT !.done = TRUE,
                            !.div = Divergence(probe.x, probe.y, probe.tm),
                            !.f = curl(probe.x, probe.y, probe.tm),
                            !.grad = Gradient(probe.x, probe.y, probe.tm),
                            !.scale = FlowScale(Abs(probe.sv)),
                            !.push = FlowPush(curl(probe.x, probe.y, probe.tm),
                                              probe.sv, FlowScale(Abs(probe.sv)))]
  /\ UNCHANGED <<mounted, listening, dom, env, particles, raf, mode, timers,
                 now, frameAt, steps, events, lastInteractionAt, last, hs, audio>>

NextFlow == Sample

SpecFlow == InitFlow /\ [][NextFlow]_vars

\* C5: the finite-difference divergence of the field the sampler returns is
\* below 1e-3 in magnitude at every sample point and time.
C5_FlowIsDivergenceFree == probe.done => Abs(probe.div) < F \div 1000

----------------------------------------------------------------------------
(* The idle band: the page is loaded and left alone, a frame runs every    *)
(* FrameMs.  No scroll, no pointer event: scrollVelocity stays 0, the      *)
(* pointer stays at its default, hasRecentInteraction stays false.         *)

\* the time between two frames, ms
FrameMs == 16
\* the number of frames the idle band runs after init's
IdleSteps == 300

\* time passes to the next frame, once this instant's frame has run
IdleTick ==
  /\ frameAt = now
  /\ now < IdleSteps * FrameMs
  /\ Pass(FrameMs)

IdleStep ==
  /\ steps < IdleSteps
  /\ Frame

NextIdle ==
  \/ \E ok \in BOOLEAN, stream \in RandomStreams : InitMount(ok, stream)
  \/ IdleTick
  \/ IdleStep

SpecIdle == Init /\ [][NextIdle]_vars

\* the square of the distance of p to its base position, as Dist2 gives it
Off(p) == Dist2(p.x - p.baseX, p.y - p.baseY)

\* a <= b for squares of distances
NotFarther(a, b) == a[1] < b[1] \/ (a[1] = b[1] /\ a[2] <= b[2])

\* the step that last ran ran under idle conditions: scrollVelocity 0, no
\* interaction active, the pointer out of reach of every particle
IdleConditions ==
  /\ last.op = "step"
  /\ last.sv = 0
  /\ ~last.active
  /\ \A i \in DOMAIN last.kicks : ~last.kicks[i].near

\* C3: under idle conditions, after 300 steps every particle of a freshly
\* laid-out band is less than 0.5 px from its base position.
C3_IdleConvergence ==
  (IdleConditions /\ steps >= IdleSteps) =>
    \A i \in DOMAIN particles : Off(particles[i])[1] = 0 /\ Off(particles[i])[2] < 250000

----------------------------------------------------------------------------
(* The idle band with its particles displaced: the band was laid out with  *)
(* every base position inside it, an interaction has left each particle at *)
(* an offset from its base with some velocity, and has died down.          *)

\* offsets <<x, y>> from the base and velocities <<vx, vy>>, 1/1000 px
Offsets == { <<0, 0>>, <<2000, 0>>, <<-500, 1500>>, <<1000, 3000>> }
Velocities == { <<0, 0>>, <<300, -200>> }

\* Math.random() giving only jitters that keep the bases inside the band
InsideStream == <<999, 750, 250>>

Displaced(p, off, vel) ==
  [p EXCEPT !.x = p.baseX + off[1], !.y = p.baseY + off[2], !.vx = vel[1], !.vy = vel[2]]

InitSpring ==
  /\ mounted = TRUE
  /\ listening = TRUE
  /\ canvas = TRUE
  /\ ctx = TRUE
  /\ innerWidth = 7
  /\ innerHeight = 40
  /\ width = 7
  /\ height = BandHeight(40)
  /\ \E off \in Offsets, vel \in Velocities :
       particles = [i \in DOMAIN createParticles(7, BandHeight(40), InsideStream) |->
                      Displaced(createParticles(7, BandHeight(40), InsideStream)[i],
                                off, vel)]
  /\ rafPending = TRUE
  /\ pageYOffset = 0
  /\ lastScrollY = 0
  /\ scrollVelocity = 0
  /\ mouse = [x |-> MOUSE_FAR * PX, y |-> MOUSE_FAR * PX]
  /\ hasRecentInteraction = FALSE
  /\ scrollTimer = -1
  /\ mouseTimer = -1
  /\ now = 0
  /\ frameAt = 0
  /\ steps = 0
  /\ events = 0
  /\ lastInteractionAt = -1
  /\ last = Did("boot")
  /\ pendingFrames = 0
  /\ hs = NoScroller
  /\ audio = NoAudio
  /\ probe = NoProbe

NextSpring ==
  \/ IdleTick
  \/ IdleStep

SpecSpring == InitSpring /\ [][NextSpring]_vars

\* C4 as stated: under idle conditions, whatever the displaced state, no
\* particle is farther from its base position after a step than before it.
C4_MonotoneShrink ==
  IdleConditions =>
    \A i \in DOMAIN particles : NotFarther(Off(particles[i]), Off(last.before[i]))

\* the particle p is at rest and its base position lies inside the band
AtRestInside(p) ==
  /\ p.vx = 0 /\ p.vy = 0
  /\ 0 <= p.baseX /\ p.baseX <= width * PX
  /\ 0 <= p.baseY /\ p.baseY <= height * PX
  /\ InBand(p)

\* C4, amended: under idle conditions, a particle that is at rest, its base
\* position inside the band, is not farther from its base after the step than
\* before it.  (A moving particle can get farther: the spring overshoots.)
C4_ShrinkFromRest ==
  IdleConditions =>
    \A i \in DOMAIN particles :
      AtRestInside(last.before[i]) =>
        NotFarther(Off(particles[i]), Off(last.before[i]))

\* an idle step has brought a displaced particle that was at rest closer
C4_Witness ==
  /\ IdleConditions
  /\ \E i \in DOMAIN particles :
       /\ AtRestInside(last.before[i])
       /\ Off(last.before[i]) # <<0, 0>>
       /\ Off(particles[i]) # Off(last.before[i])
       /\ NotFarther(Off(particles[i]), Off(last.before[i]))

----------------------------------------------------------------------------
(* The band under a steady scroll: the page scrolls on by 10 px before     *)
(* every step, so that each step reads scrollVelocity = 10; a frame runs   *)
(* every FrameMs; the pointer stays at its default, far away.              *)

\* the number of frames the scrolling band runs after init's
HeldSteps == 60

InitHeld == probe = NoProbe /\ Boot(<<4, 250>>)

HeldScroll ==
  /\ scrollVelocity # 10 * PX
  /\ ScrollTo(pageYOffset + 10)
  /\ UNCHANGED events

HeldMount ==
  /\ scrollVelocity = 10 * PX
  /\ \E ok \in BOOLEAN, stream \in RandomStreams : InitMount(ok, stream)

HeldTick ==
  /\ frameAt = now
  /\ now < HeldSteps * FrameMs
  /\ Pass(FrameMs)

HeldStep ==
  /\ steps < HeldSteps
  /\ scrollVelocity = 10 * PX
  /\ Frame

NextHeld ==
  \/ HeldScroll
  \/ HeldMount
  \/ HeldTick
  \/ HeldStep

SpecHeld == InitHeld /\ [][NextHeld]_vars

\* C7: with scrollVelocity at 10 at every step and the pointer far away, every
\* particle's y is within [baseY - 14, baseY + 14] after every step.
C7_WaveStaysWithinFourteen ==
  (/\ last.op = "step"
   /\ last.sv = 10 * PX
   /\ \A i \in DOMAIN last.kicks : ~last.kicks[i].near) =>
    \A i \in DOMAIN particles :
      Abs(particles[i].y - particles[i].baseY) <= 14 * PX

\* after half a second of steady scroll the wave has lifted a particle, which
\* the band's edges leave room to, by more than 3 px
C7_Witness ==
  /\ last.op = "step"
  /\ last.sv = 10 * PX
  /\ steps >= 30
  /\ \E i \in DOMAIN particles :
       /\ particles[i].baseY >= 14 * PX
       /\ particles[i].baseY <= (height - 14) * PX
       /\ Abs(particles[i].y - particles[i].baseY) > 3 * PX

----------------------------------------------------------------------------
(* Layout (lines 20-53): bands of several sizes, the empty ones among them, *)
(* laid out by init and by resizes, and stepped                             *)

\* <<innerWidth, innerHeight>>: no width; no height (floor(5 * 0.14) = 0);
\* neither; a 9 x 14 band; an 800 x 96 band
LayoutViewports == { <<0, 43>>, <<4, 5>>, <<0, 0>>, <<9, 100>>, <<800, 700>> }

LayoutSteps == 1

InitLayout == probe = NoProbe /\ \E vp \in LayoutViewports : Boot(vp)

LayoutTick ==
  /\ frameAt = now
  /\ now < LayoutSteps * FrameMs
  /\ Pass(FrameMs)

LayoutStep ==
  /\ steps < LayoutSteps
  /\ Frame

NextLayout ==
  \/ \E ok \in BOOLEAN, stream \in RandomStreams : InitMount(ok, stream)
  \/ \E vp \in LayoutViewports, ok \in BOOLEAN, stream \in RandomStreams :
        Resize(vp, ok, stream)
  \/ LayoutTick
  \/ LayoutStep

SpecLayout == InitLayout /\ [][NextLayout]_vars

\* the least n with n * b >= a: the ceiling of a / b, for a >= 0
Ceiling(a, b) == CHOOSE n \in 0..a : n * b >= a /\ (n - 1) * b < a

\* the particles the last layout produced: init's are in last.before (its
\* step(0) follows in the same call), a resize's are the particle set
Produced == IF last.op = "resize" THEN particles ELSE last.before

\* C11: the number of particles a layout produces is
\* ceil(width / 4) * ceil(height / 6), whatever Math.random() returned.
C11_CountIsCeilTimesCeil ==
  (ctx /\ (last.op = "resize" \/ (last.op = "step" /\ steps = 0))) =>
     Len(Produced) = Ceiling(width, 4) * Ceiling(height, 6)

\* an 800 x 96 band laid out again by a resize with other jitter: 3200 both times
C11_Witness ==
  /\ ctx
  /\ last.op = "resize"
  /\ width = 800 /\ height = 96
  /\ Len(particles) = 3200
  /\ Len(last.before) = 3200
  /\ last.before[1].baseX # particles[1].baseX

\* C12: a layout with width <= 0 or height <= 0 gives no particles and raises
\* no error, and a step over no particles runs to its end without error.
C12_EmptyBandIsHarmless ==
  (ctx /\ (width <= 0 \/ height <= 0)) =>
     /\ particles = <<>>
     /\ ~last.threw
     /\ last.op = "step" =>
          /\ rafPending
          /\ last.before = <<>>
          /\ scrollVelocity = Decay(last.sv)

\* a frame has run over a band of width 4 and height 0
C12_Witness ==
  /\ ctx
  /\ width > 0
  /\ height = 0
  /\ last.op = "step"
  /\ steps = 1
  /\ particles = <<>>

----------------------------------------------------------------------------
(* Resizes among events and frames, under Spec                              *)

\* p is at rest at its base position
AtRestAtBase(p) == p.vx = 0 /\ p.vy = 0 /\ p.x = p.baseX /\ p.y = p.baseY

\* C13: a resize replaces the particle set as a whole: the set after it is a
\* fresh layout of the new band, none of the earlier particles is in it and
\* every particle is at rest at its base position; and once init has laid the
\* band out, the number of particles is ceil(width / 4) * ceil(height / 6) in
\* every state.
C13_ResizeReplacesParticles ==
  ctx =>
    /\ last.op = "resize" =>
         /\ \E stream \in RandomStreams :
               particles = createParticles(width, height, stream)
         /\ \A i \in DOMAIN particles : AtRestAtBase(particles[i])
    /\ mounted => Len(particles) = Ceiling(width, 4) * Ceiling(height, 6)

\* a resize after init, at which a particle was away from its base and moving
C13_Witness ==
  /\ ctx
  /\ mounted
  /\ last.op = "resize"
  /\ Len(particles) = 2
  /\ \E i \in DOMAIN last.before :
        last.before[i].vx # 0 /\ last.before[i].x # last.before[i].baseX

----------------------------------------------------------------------------
(* A missing 2D context, under Spec                                         *)

\* C14: when getContext('2d') gave no context, no handler raises an error, no
\* particle changes, and once init has run the animation callback stays
\* requested until teardown, each step drawing nothing.
C14_MissingContextDegradesSilently ==
  (canvas /\ ~ctx) =>
     /\ ~last.threw
     /\ particles = <<>>
     /\ (mounted /\ listening) => rafPending

----------------------------------------------------------------------------
(* Teardown, under Spec                                                     *)

\* C15: after teardown (the beforeunload listener has run) no animation
\* callback is pending, and nothing that runs afterwards is a step or one of
\* the resize, scroll, mousemove and touchmove handlers.
C15_NothingRunsAfterTeardown ==
  ~listening =>
     /\ ~rafPending
     /\ last.op \notin {"step", "resize", "scroll", "mousemove", "touchmove"}

----------------------------------------------------------------------------
(* Event handlers and the particle set, under Spec                          *)

\* C16: a scroll, mousemove or touchmove event writes nothing but
\* scrollVelocity, the last scroll offset, the pointer position, the
\* interaction flag and its timers: it leaves every particle, the particle
\* set, the canvas and the animation callback as they were.
C16_EventsLeaveParticlesAlone ==
  [][(events' # events /\ last'.op \in {"scroll", "mousemove", "touchmove"}) =>
        UNCHANGED <<particles, dom, mounted, listening, rafPending, frameAt, steps>>]_vars

\* a scroll or pointer event has arrived with a particle away from its base
C16_Witness ==
  /\ last.op \in {"scroll", "mousemove", "touchmove"}
  /\ \E i \in DOMAIN particles :
        particles[i].x # particles[i].baseX /\ particles[i].vx # 0

----------------------------------------------------------------------------
(* Damping within a step (lines 126-165), under Spec                        *)

\* the particle with index i of the last step got no pointer kick and was not
\* reflected: it ended strictly inside the band
Free(i) ==
  /\ ~last.kicks[i].near
  /\ 0 < particles[i].x /\ particles[i].x < width * PX
  /\ 0 < particles[i].y /\ particles[i].y < height * PX

\* ay1 of the last step for the particle p as it was before the step
Settle(p) == TDiv((TargetY(p, last.time, last.waveAmp) - p.y) * 6, 100)

\* a and b, both in units of 1/k of 1/1000 px, differ by at most tol/1000 px
Near(a, b, k, tol) == Abs(a - b) <= tol * k

\* the velocity at integration is q.x - p.x (no reflection): 0.92 (vx + ax),
\* and the velocity after the step 0.92 times that
TwiceDampedX(p, q, a) ==
  /\ Near(100 * (q.x - p.x), DAMPING * (p.vx + a.x), 100, 2)
  /\ Near(100 * q.vx, DAMPING * (q.x - p.x), 100, 2)

\* the same for y with the sum of the y accelerations
TwiceDampedY(p, q, ay1, a) ==
  /\ Near(100 * (q.y - p.y), DAMPING * (p.vy + ay1 + a.y), 100, 2)
  /\ Near(100 * q.vy, DAMPING * (q.y - p.y), 100, 2)

\* y as the code has it: 0.92 (0.92 (vy + ay1) + ay2) at integration
ThriceDampedY(p, q, ay1, a) ==
  /\ Near(10000 * (q.y - p.y),
          DAMPING * DAMPING * (p.vy + ay1) + 100 * DAMPING * a.y, 10000, 2)
  /\ Near(100 * q.vy, DAMPING * (q.y - p.y), 100, 2)

\* C17 as stated: in a step without pointer kick and reflection, each velocity
\* component is (v + a) * 0.92 at integration, a the sum of the accelerations
\* on that axis, and 0.92 times that after the step.
C17_TwiceDampedOnBothAxes ==
  last.op = "step" =>
    \A i \in DOMAIN particles :
       Free(i) =>
         /\ TwiceDampedX(last.before[i], particles[i],
                         Accel(last.before[i], last.time, last.sv, last.active))
         /\ TwiceDampedY(last.before[i], particles[i], Settle(last.before[i]),
                         Accel(last.before[i], last.time, last.sv, last.active))

\* C17 amended: vx is damped twice, (vx + ax) * 0.92 at integration and 0.92
\* times that after the step; vy is damped three times, the wave settle being
\* added before the first pass and the flow or restore before the second:
\* ((vy + ay1) * 0.92 + ay2) * 0.92 at integration and 0.92 times that after.
C17_TwiceDampedXThriceY ==
  last.op = "step" =>
    \A i \in DOMAIN particles :
       Free(i) =>
         /\ TwiceDampedX(last.before[i], particles[i],
                         Accel(last.before[i], last.time, last.sv, last.active))
         /\ ThriceDampedY(last.before[i], particles[i], Settle(last.before[i]),
                          Accel(last.before[i], last.time, last.sv, last.active))

\* a step under flow with the wave on in which a particle, neither kicked nor
\* reflected, had a y velocity plus wave settle of more than 0.1 px per step
C17_Witness ==
  /\ last.op = "step"
  /\ last.flow
  /\ last.waveAmp > 0
  /\ \E i \in DOMAIN particles :
        /\ Free(i)
        /\ Abs(last.before[i].vy + Settle(last.before[i])) > 100

----------------------------------------------------------------------------
(* The pointer kick within a step (lines 147-165), under Spec               *)

\* the particle with index i of the last step got a pointer kick and was not
\* reflected
KickedFree(i) ==
  /\ last.kicks[i].near
  /\ 0 < particles[i].x /\ particles[i].x < width * PX
  /\ 0 < particles[i].y /\ particles[i].y < height * PX

\* the position change less the whole kick k is the damped velocity of lines
\* 147-148, and the velocity after the step is 0.92 times the position change
KickUndamped(p, q, ay1, a, k) ==
  /\ Near(100 * (q.x - p.x - TDiv(k.kx, 1000)), DAMPING * (p.vx + a.x), 100, 2)
  /\ Near(10000 * (q.y - p.y - TDiv(k.ky, 1000)),
          DAMPING * DAMPING * (p.vy + ay1) + 100 * DAMPING * a.y, 10000, 2)
  /\ Near(100 * q.vx, DAMPING * (q.x - p.x), 100, 2)
  /\ Near(100 * q.vy, DAMPING * (q.y - p.y), 100, 2)

\* C18: within a step the pointer kick is added to the velocity after the
\* damping that precedes integration and before the position is integrated:
\* the step's position change contains the whole kick, and the kick is damped
\* only by the pass that follows integration.
C18_KickBetweenDampingPasses ==
  last.op = "step" =>
    \A i \in DOMAIN particles :
       KickedFree(i) =>
          KickUndamped(last.before[i], particles[i], Settle(last.before[i]),
                       Accel(last.before[i], last.time, last.sv, last.active),
                       last.kicks[i])

\* a step in which a particle got a kick of more than 0.1 px and stayed inside
\* the band
C18_Witness ==
  /\ last.op = "step"
  /\ \E i \in DOMAIN particles :
        /\ KickedFree(i)
        /\ Abs(last.kicks[i].kx) + Abs(last.kicks[i].ky) > 100000

----------------------------------------------------------------------------
(* Flow advection and idle restore (lines 133-146), under Spec              *)

\* the gate as the specification words it, from what the step read
Advecting == Abs(last.sv) > 200 \/ last.active

\* the flow advection alone, for the particle p of the last step
FlowOnly(p) ==
  FlowPush(curl(p.x, p.y, FlowTime(last.time, Abs(last.sv))), last.sv,
           FlowScale(Abs(last.sv)))

\* C19: in every step exactly one of flow advection and idle restore is
\* applied to every particle: the flow iff |scrollVelocity| > 0.2 or the
\* interaction flag is set, the restore iff neither; and the wave settle and
\* the pointer-distance test are evaluated for every particle of every step.
C19_FlowXorRestore ==
  last.op = "step" =>
    /\ last.flow # last.restore
    /\ last.flow <=> Advecting
    /\ last.restore <=> ~Advecting
    /\ DOMAIN last.kicks = DOMAIN last.before
    /\ \A i \in DOMAIN last.before :
          Accel(last.before[i], last.time, last.sv, last.active) =
             IF Advecting THEN FlowOnly(last.before[i]) ELSE Restore(last.before[i])

\* a step that advects on the interaction flag alone, scrollVelocity being
\* at most 0.2, with a particle away from its base that the restore would pull
C19_Witness ==
  /\ last.op = "step"
  /\ last.active
  /\ Abs(last.sv) <= 200
  /\ \E i \in DOMAIN last.before : last.before[i].x # last.before[i].baseX

----------------------------------------------------------------------------
(* The decay of scrollVelocity (line 180): scroll and pointer events during *)
(* the first frames, then frames only.  Due timers and requested animation  *)
(* callbacks do run: weak fairness of the timer callbacks, of the passing   *)
(* of time and of the frame.                                                *)

SettleSteps == 60

\* events arrive while fewer than this many frames have run
SettleEventSteps == 1

SettleScroll ==
  /\ steps < SettleEventSteps
  /\ \E y \in ScrollOffsets : Scroll(y)

SettleMouseMove ==
  /\ steps < SettleEventSteps
  /\ \E pt \in Pointers : MouseMove(pt[1], pt[2])

SettleTick ==
  /\ frameAt = now
  /\ now < SettleSteps * FrameMs
  /\ Pass(FrameMs)

SettleStep ==
  /\ steps < SettleSteps
  /\ Frame

NextSettle ==
  \/ \E ok \in BOOLEAN, stream \in RandomStreams : InitMount(ok, stream)
  \/ SettleScroll
  \/ SettleMouseMove
  \/ ScrollTimerFire
  \/ MouseTimerFire
  \/ SettleTick
  \/ SettleStep

InitSettle == probe = NoProbe /\ Boot(<<4, 43>>)

\* SettleStep is enabled: the guards of SettleStep and of Frame
FrameDue == steps < SettleSteps /\ rafPending /\ ~TimerDue /\ now > frameAt

\* a SettleStep step, told by its count: of NextSettle's actions only Frame
\* changes steps
FrameRuns == FrameDue /\ steps' = steps + 1

SpecSettle ==
  /\ InitSettle
  /\ [][NextSettle]_vars
  /\ WF_vars(ScrollTimerFire)
  /\ WF_vars(MouseTimerFire)
  /\ WF_vars(SettleTick)
  /\ WF_steps(FrameRuns)

\* |scrollVelocity| <= 0.2
Slow == Abs(scrollVelocity) <= 200

\* C20: every step multiplies scrollVelocity by 0.9, whatever events came
\* before it; |scrollVelocity| rises above 0.2 only by a scroll event; and
\* with the animation running, once the scroll events have stopped,
\* |scrollVelocity| is at most 0.2 after finitely many steps and stays so.
C20_ScrollVelocityDecays ==
  /\ [][(frameAt' # frameAt) =>
          /\ last'.op = "step"
          /\ Abs(10 * scrollVelocity' - 9 * scrollVelocity) < 10
          /\ Abs(scrollVelocity') <= Abs(scrollVelocity)]_vars
  /\ [][(Slow /\ ~Slow') => last'.op = "scroll"]_vars
  /\ rafPending ~> []Slow

\* the step that takes |scrollVelocity| from above 0.2 to at most 0.2, after a
\* scroll or pointer event
C20_Witness ==
  /\ last.op = "step"
  /\ events > 0
  /\ Abs(last.sv) > 200
  /\ Slow

----------------------------------------------------------------------------
(* The time a step uses (lines 78-83), under Spec                           *)

\* the time the latest step used: init's step(0) uses 0, a frame its timestamp
StepTime == IF steps = 0 THEN 0 ELSE frameAt

\* C21: the time a step consumes is capped at 33 ms: the time used for waves
\* and noise advances by at most 33 ms from one step to the next, however far
\* apart the two animation callbacks are.
C21_StepTimeCapped ==
  [][(steps' = steps + 1) => last'.time - StepTime <= 33]_vars

----------------------------------------------------------------------------
(* Animation callbacks of step (lines 78-79, 183-194), under Spec           *)

\* C22: at most one animation callback of step is pending at any time,
\* whatever the interleaving of init, resize, scroll and pointer events, and
\* every callback that runs makes exactly one pass over the particles as they
\* are and leaves exactly one callback pending.
C22_OneFrameOnePass ==
  /\ [](pendingFrames <= 1 /\ (rafPending <=> pendingFrames = 1))
  /\ [][(steps' = steps + 1) =>
          /\ pendingFrames = 1
          /\ pendingFrames' = 1
          /\ last'.op = "step"
          /\ last'.before = particles]_vars

\* a resize has arrived between two frames, with the next callback pending
C22_Witness ==
  /\ mounted
  /\ steps >= 1
  /\ last.op = "resize"
  /\ pendingFrames = 1

----------------------------------------------------------------------------
(* What the field sampler returns (lines 115-123), under SpecFlow           *)

\* C23: the sampler returns the central-difference gradient of the noise
\* rotated by 90 degrees: its x component is the difference quotient along y,
\* its y component the negated difference quotient along x.
C23_FlowIsRotatedGradient ==
  probe.done => (probe.f.x = probe.grad.y /\ probe.f.y = -probe.grad.x)

\* C24: what the flow branch adds to ax never points in the scroll direction:
\* it is <= 0 when scrollVelocity > 0, >= 0 when scrollVelocity < 0 and
\* fx * flowScale when scrollVelocity = 0, with
\* flowScale = min(3, 0.6 + |scrollVelocity| * 0.12) in [0.6, 3].
C24_FlowOpposesScroll ==
  probe.done =>
    /\ probe.sv > 0 => probe.push.x <= 0
    /\ probe.sv < 0 => probe.push.x >= 0
    /\ probe.sv = 0 => probe.push.x = TDiv(TDiv(probe.f.x, 100) * 600, 1000000)
    /\ 600 <= probe.scale /\ probe.scale <= 3000
    /\ \/ probe.scale = 3000 /\ 600 * 100 + Abs(probe.sv) * 12 >= 3000 * 100
       \/ /\ (probe.scale - 600) * 100 <= Abs(probe.sv) * 12
          /\ Abs(probe.sv) * 12 < (probe.scale - 600 + 1) * 100

\* upward scroll with a flow of positive x: the branch pushes to the right
C24_Witness ==
  /\ probe.done
  /\ probe.sv < 0
  /\ probe.f.x > 0
  /\ probe.push.x > 0

----------------------------------------------------------------------------
(* Reflection at the band's edges (lines 163-170), under Spec               *)

\* the velocity the last step integrated the particle p with
Integrated(p, k) ==
  Velocity(p, Settle(p), Accel(p, last.time, last.sv, last.active), k)

\* on one axis: from pos with velocity v (lines 164-165 give pos + v and
\* 0.92 v), the step left the position at qpos and the velocity at qvel; the
\* halved velocity is exact up to the rounding of 1/1000 px
EdgeLaw(pos, v, limit, qpos, qvel) ==
  /\ pos + v < 0 => (qpos = 0 /\ Abs(2 * qvel + TDiv(v * DAMPING, 100)) <= 1)
  /\ pos + v > limit =>
       (qpos = limit /\ Abs(2 * qvel + TDiv(v * DAMPING, 100)) <= 1)
  /\ (0 <= pos + v /\ pos + v <= limit) =>
       (qpos = pos + v /\ qvel = TDiv(v * DAMPING, 100))

\* both axes of the particle p that the step turned into q
EdgeLaws(p, v, q) ==
  /\ EdgeLaw(p.x, v.x, width * PX, q.x, q.vx)
  /\ EdgeLaw(p.y, v.y, height * PX, q.y, q.vy)

\* C25: when integration takes a particle past an edge of the band on an
\* axis, the step sets that coordinate onto the edge and multiplies that
\* axis's velocity by -0.5; an axis that crossed no edge keeps the integrated
\* coordinate and velocity.
C25_ReflectionPerAxis ==
  last.op = "step" =>
    \A i \in DOMAIN particles :
       EdgeLaws(last.before[i], Integrated(last.before[i], last.kicks[i]), particles[i])

\* a step took a moving particle past the left edge while its y stayed inside
\* the band
C25_Witness ==
  /\ last.op = "step"
  /\ \E i \in DOMAIN particles :
        /\ particles[i].x = 0
        /\ particles[i].vx > 0
        /\ 0 < particles[i].y /\ particles[i].y < height * PX
        /\ particles[i].vy # 0

----------------------------------------------------------------------------
(* The wave amplitude around the gate at 0.2 (lines 84-86, 126-130), under  *)
(* SpecSettle, where scrollVelocity decays through the gate                 *)

\* twice min(14, |scrollVelocity| * 0.5 + 2), exact in 1/1000 px
TwiceAmp == Min(28 * PX, Abs(last.sv) + 4 * PX)

\* C26: waveAmp is 0 exactly when |scrollVelocity| <= 0.2 and otherwise
\* min(14, |scrollVelocity| * 0.5 + 2), a value in (2.1, 14]; when it is 0 the
\* target of the wave settle is baseY itself and the spring
\* (targetY - y) * 0.06 still acts on the particle.
C26_WaveAmpGate ==
  last.op = "step" =>
    /\ last.waveAmp = 0 <=> Abs(last.sv) <= 200
    /\ Abs(last.sv) > 200 =>
         /\ last.waveAmp = TwiceAmp \div 2
         /\ 4200 < TwiceAmp /\ TwiceAmp <= 28 * PX
    /\ last.waveAmp = 0 =>
         \A i \in DOMAIN particles :
            /\ TargetY(last.before[i], last.time, last.waveAmp) = last.before[i].baseY
            /\ Free(i) =>
                 ThriceDampedY(last.before[i], particles[i],
                               TDiv((last.before[i].baseY - last.before[i].y) * 6, 100),
                               Accel(last.before[i], last.time, last.sv, last.active))

\* a step just below the gate (0 < |scrollVelocity| <= 0.2, no wave) with a
\* particle off its baseY that the spring pulls
C26_Witness ==
  /\ last.op = "step"
  /\ last.waveAmp = 0
  /\ 0 < Abs(last.sv) /\ Abs(last.sv) <= 200
  /\ \E i \in DOMAIN particles :
        Free(i) /\ Abs(last.before[i].baseY - last.before[i].y) > 100

----------------------------------------------------------------------------
(* The pointer kick's guards (lines 150-161, 17)                            *)

\* the vector from the pointer to the particle p of the band, 1/1000 px
FromPointer(p) == [x |-> p.x - mouse.x, y |-> (innerHeight - height) * PX + p.y - mouse.y]

\* dist2 < rad * rad (line 154)
Within(d) ==
  /\ Abs(d.x) < MOUSE_INFLUENCE * PX
  /\ Abs(d.y) < MOUSE_INFLUENCE * PX
  /\ Dist2(d.x, d.y)[1] < MOUSE_INFLUENCE * MOUSE_INFLUENCE

\* Math.max(8, Math.sqrt(dist2)) (line 155), for a pointer within 90 px
Divisor(d) == Max(8 * PX, SqrtIn(Dist2(d.x, d.y), 0, MOUSE_INFLUENCE * PX))

\* C27: a particle is kicked only when the pointer is less than 90 px from it;
\* the kick is (d / max(8, distance)) * strength * 6 per component with the
\* divisor never below 8 px, so that strength is in [0, 0.16) and each
\* component of the kick is below 0.96 px; and while the pointer is where the
\* script left it, (-9999, -9999), no particle of the band is kicked.
C27_KickGuards ==
  last.op = "step" =>
    \A i \in DOMAIN last.kicks :
      LET k == last.kicks[i]
          d == FromPointer(last.before[i])
      IN  /\ (k.kx # 0 \/ k.ky # 0) => Within(d)
          /\ ~Within(d) => ~k.near
          /\ Within(d) =>
               /\ Divisor(d) >= 8 * PX /\ Divisor(d) < MOUSE_INFLUENCE * PX
               /\ k.kx = MulDiv(d.x * MOUSE_STRENGTH * 6,
                                 MOUSE_INFLUENCE * PX - Divisor(d), 9 * Divisor(d))
               /\ k.ky = MulDiv(d.y * MOUSE_STRENGTH * 6,
                                 MOUSE_INFLUENCE * PX - Divisor(d), 9 * Divisor(d))
               /\ Abs(k.kx) < MOUSE_STRENGTH * 6 * 10000
               /\ Abs(k.ky) < MOUSE_STRENGTH * 6 * 10000
               /\ Dist2(d.x, d.y)[1] < 64 =>
                    /\ k.kx = MulDiv(d.x * MOUSE_STRENGTH * 6, 82 * PX, 72 * PX)
                    /\ k.ky = MulDiv(d.y * MOUSE_STRENGTH * 6, 82 * PX, 72 * PX)
          /\ mouse = [x |-> MOUSE_FAR * PX, y |-> MOUSE_FAR * PX] =>
               ~k.near /\ k.kx = 0 /\ k.ky = 0

\* a step has kicked a particle that the pointer was less than 8 px from
C27_Witness ==
  /\ last.op = "step"
  /\ \E i \in DOMAIN last.kicks :
       /\ Within(FromPointer(last.before[i]))
       /\ Dist2(FromPointer(last.before[i]).x, FromPointer(last.before[i]).y)[1] < 64
       /\ last.kicks[i].kx # 0
       /\ particles[i].vx # 0

----------------------------------------------------------------------------
(* Where createParticles puts the bases (lines 37-48), under SpecLayout     *)

\* the base of p lies in [0, width] x [0, height]
BaseInBand(p) ==
  /\ 0 <= p.baseX /\ p.baseX <= width * PX
  /\ 0 <= p.baseY /\ p.baseY <= height * PX

\* C28: every particle a layout creates has its base, and with it its initial
\* position, inside the band rectangle [0, width] x [0, height], for every
\* band size and every jitter in [-0.75, 0.75).
C28_BasesInsideBand ==
  (ctx /\ (last.op = "resize" \/ (last.op = "step" /\ steps = 0))) =>
     \A i \in DOMAIN Produced :
        /\ BaseInBand(Produced[i])
        /\ Produced[i].x = Produced[i].baseX
        /\ Produced[i].y = Produced[i].baseY

----------------------------------------------------------------------------
(* hs-scroller.js: the scroll-pinned narrative. The file holds the script   *)
(* twice (lines 10-137 and 150-285); both copies run, each with its own     *)
(* closure (ticking, the sizing cache) and its own listeners, and both      *)
(* write to the same track and path elements. Lengths in px, totalScroll in *)
(* 1/10 px, progress, translateX and strokeDashoffset in 1/1000.            *)

\* the copies of the script in the file
HsCopies == 2

\* config.panelTexts.length
panelCount == 5

\* config.snapBreakpointPx
snapBreakpointPx == 680

\* rect.top + window.scrollY: the section's top in the document, px
HsSectionTop == 300

\* <<innerWidth, innerHeight>> of the page the narrative is on
HsViewports == { <<600, 400>>, <<800, 600>>, <<1200, 800>> }

\* values of window.scrollY
HsScrolls == { 0, 300, 1000, 2400, 5000 }

\* a faulty variant of clamp: the value is passed through
clamp_Open(v, a, b) == v

\* const clamp = (v, a, b) => Math.max(a, Math.min(b, v))
clamp(v, a, b) == Max(a, Min(b, v))

\* isSnapMode()
isSnapMode == innerWidth <= snapBreakpointPx

\* trackDistance + viewportH * 0.1 of recalc(), 1/10 px
TotalScroll(vw, vh) == 10 * Max(0, panelCount * vw - vw) + vh

\* recalc() in the closure c
recalc(c) == [c EXCEPT !.viewportW = innerWidth', !.viewportH = innerHeight',
                       !.totalScroll = TotalScroll(innerWidth', innerHeight')]

\* onScroll() in the closure c: nothing while ticking, else one callback asked for
onScroll(c) ==
  IF c.ticking THEN c
  ELSE [c EXCEPT !.ticking = TRUE, !.pending = RequestFrame(c.pending)]

\* clamp(current / totalScroll, 0, 1) for the closure c (totalScroll > 0: the
\* viewports have a width)
Progress(c) == clamp(TDiv((pageYOffset - HsSectionTop) * 10000, c.totalScroll), 0, 1000)

\* Math.max(0, trackW - viewportW)
MaxX(c) == Max(0, panelCount * c.viewportW - c.viewportW)

dots == <<mounted, listening, dom, particles, raf, mode, timers, now, frameAt,
          steps, events, lastInteractionAt, probe, audio>>

\* the page loads with the narrative's script alone
InitScroller ==
  /\ \E vp \in HsViewports : innerWidth = vp[1] /\ innerHeight = vp[2]
  /\ mounted = FALSE /\ listening = FALSE /\ canvas = FALSE /\ ctx = FALSE
  /\ width = 0 /\ height = 0 /\ particles = <<>>
  /\ rafPending = FALSE /\ pendingFrames = 0
  /\ pageYOffset = 0 /\ lastScrollY = 0 /\ scrollVelocity = 0
  /\ mouse = [x |-> MOUSE_FAR * PX, y |-> MOUSE_FAR * PX]
  /\ hasRecentInteraction = FALSE
  /\ scrollTimer = -1 /\ mouseTimer = -1
  /\ now = 0 /\ frameAt = -1 /\ steps = 0 /\ events = 0 /\ lastInteractionAt = -1
  /\ last = Did("boot")
  /\ probe = NoProbe /\ hs = NoScroller /\ audio = NoAudio

\* the script runs, both copies (lines 10-131, 150-279): recalc(), the path
\* hidden unless snap mode or reduced motion, the listeners attached
HsRun(reduced) ==
  /\ ~hs.installed
  /\ hs' = [installed |-> TRUE, listening |-> TRUE, prefersReduced |-> reduced,
            copies |-> [i \in 1..HsCopies |->
                          [ticking |-> FALSE, pending |-> 0,
                           viewportW |-> innerWidth, viewportH |-> innerHeight,
                           totalScroll |-> TotalScroll(innerWidth, innerHeight)]],
            translateX |-> 0,
            dashoffset |-> IF isSnapMode \/ reduced THEN 0 ELSE 1000,
            progress |-> 0, applied |-> "none"]
  /\ last' = Did("hs-run")
  /\ UNCHANGED <<dots, env>>

\* a scroll event to y: every copy's onScroll
HsScroll(y) ==
  /\ hs.listening
  /\ pageYOffset' = y
  /\ hs' = [hs EXCEPT !.copies = [i \in DOMAIN hs.copies |-> onScroll(hs.copies[i])]]
  /\ last' = Did("hs-scroll")
  /\ UNCHANGED <<dots, innerWidth, innerHeight>>

\* a resize event to vp: every copy's onResize, recalc() then onScroll()
HsResize(vp) ==
  /\ hs.listening
  /\ innerWidth' = vp[1]
  /\ innerHeight' = vp[2]
  /\ hs' = [hs EXCEPT !.copies = [i \in DOMAIN hs.copies |-> onScroll(recalc(hs.copies[i]))]]
  /\ last' = Did("hs-resize")
  /\ UNCHANGED <<dots, pageYOffset>>

\* the animation-frame callback of copy i runs (lines 90-110)
HsCallback(i) ==
  /\ hs.installed
  /\ i \in DOMAIN hs.copies
  /\ hs.copies[i].pending > 0
  /\ hs' = LET c == hs.copies[i]
               done == [hs EXCEPT !.copies[i].ticking = FALSE,
                                  !.copies[i].pending = c.pending - 1]
           IN  IF isSnapMode \/ hs.prefersReduced
               THEN [done EXCEPT !.translateX = 0, !.dashoffset = 0, !.applied = "snap"]
               ELSE [done EXCEPT !.progress = Progress(c),
                                 !.translateX = Progress(c) * MaxX(c),
                                 !.dashoffset = 1000 - Progress(c),
                                 !.applied = "progress"]
  /\ last' = Did("hs-frame")
  /\ UNCHANGED <<dots, env>>

\* beforeunload: both copies' listeners are removed; a pending callback is not
\* cancelled
HsUnload ==
  /\ hs.listening
  /\ hs' = [hs EXCEPT !.listening = FALSE]
  /\ last' = Did("hs-unload")
  /\ UNCHANGED <<dots, env>>

NextScroller ==
  \/ \E reduced \in BOOLEAN : HsRun(reduced)
  \/ \E y \in HsScrolls : HsScroll(y)
  \/ \E vp \in HsViewports : HsResize(vp)
  \/ \E i \in 1..HsCopies : HsCallback(i)
  \/ HsUnload

SpecScroller == InitScroller /\ [][NextScroller]_vars

\* the animation-frame callbacks of the scroll handlers that are pending
RECURSIVE HsPending(_)
HsPending(cs) == IF cs = <<>> THEN 0 ELSE Head(cs).pending + HsPending(Tail(cs))

\* some scroll handler is ticking
HsTicking == \E i \in DOMAIN hs.copies : hs.copies[i].ticking

\* a scroll or resize event has just been handled
HsEvent == last'.op \in {"hs-scroll", "hs-resize"}

\* the callback ran in snap mode or under reduced motion
HsStill == isSnapMode \/ hs.prefersReduced

\* window.scrollY - start, px, and the pinned distance for the window as it
\* is, 1/10 px
HsCurrent == pageYOffset - HsSectionTop
HsTotal == 10 * (panelCount - 1) * innerWidth + innerHeight

\* what the callback that just ran wrote is a progress in [0, 1], the
\* translate progress * maxX in [0, maxX] and strokeDashoffset 1 - progress
AppliedProgress ==
  /\ 0 <= hs'.progress /\ hs'.progress <= 1000
  /\ HsCurrent <= 0 => hs'.progress = 0
  /\ 10 * HsCurrent >= HsTotal => hs'.progress = 1000
  /\ (0 < HsCurrent /\ 10 * HsCurrent < HsTotal) =>
        hs'.progress = (10000 * HsCurrent) \div HsTotal
  /\ 0 <= hs'.translateX /\ hs'.translateX <= (panelCount - 1) * innerWidth * PX
  /\ hs'.translateX = hs'.progress * (panelCount - 1) * innerWidth
  /\ hs'.dashoffset = 1000 - hs'.progress

\* C29 as stated: at most one animation-frame callback of the scroll handler
\* is pending at any time, ticking is true exactly while one is pending, a
\* scroll or resize event arriving meanwhile schedules nothing, and the
\* callback applies a progress clamped to [0, 1]: translate in [0, maxX],
\* strokeDashoffset = 1 - progress.
C29_OnePendingCallback ==
  /\ [](HsPending(hs.copies) <= 1 /\ (HsTicking <=> HsPending(hs.copies) = 1))
  /\ [][(HsEvent /\ HsTicking) => HsPending(hs'.copies) = HsPending(hs.copies)]_vars
  /\ [][last'.op = "hs-frame" => AppliedProgress]_vars

\* C29, amended: each of the two copies of the script has at most one
\* animation-frame callback pending, its ticking is true exactly while that
\* one is pending, and a scroll or resize event arriving meanwhile schedules
\* nothing for it; outside snap mode (innerWidth > 680) and reduced motion
\* the callback applies a progress clamped to [0, 1], translate in [0, maxX]
\* and strokeDashoffset = 1 - progress, and in snap mode or under reduced
\* motion it sets translate 0 and strokeDashoffset 0 whatever the scroll
\* position.
C29_OnePendingPerCopy ==
  /\ [](\A i \in DOMAIN hs.copies :
           /\ hs.copies[i].pending <= 1
           /\ hs.copies[i].ticking <=> hs.copies[i].pending = 1)
  /\ [][HsEvent =>
          \A i \in DOMAIN hs.copies :
             hs.copies[i].ticking => hs'.copies[i].pending = hs.copies[i].pending]_vars
  /\ [][last'.op = "hs-frame" =>
          IF HsStill THEN hs'.translateX = 0 /\ hs'.dashoffset = 0
          ELSE AppliedProgress]_vars

\* a callback has applied a progress strictly between 0 and 1 while the other
\* copy's callback is still pending
C29_Witness ==
  /\ last.op = "hs-frame"
  /\ hs.applied = "progress"
  /\ 0 < hs.progress /\ hs.progress < 1000
  /\ hs.dashoffset = 1000 - hs.progress
  /\ hs.translateX > 0
  /\ HsTicking

----------------------------------------------------------------------------
(* web/audio.ts: the AudioManager's rate-limited effects (lines 216-275).   *)
(* now is performance.now(), ms. In audio: available, whether the window    *)
(* has an AudioContext; context, whether ensureContext() has made one;      *)
(* nodes, the audio nodes created so far; started and count, history: when  *)
(* the latest sound of each kind started (-1: none) and how many have;      *)
(* outcome, how the latest call ended.                                      *)

\* the clock's steps and its end, ms
AudioTicks == { 6, 23 }
MaxAudioTime == 70

\* the nodes a sound is made of: createOscillator and createGain (collision);
\* a buffer source, createBiquadFilter, createGain (scrollWhoosh);
\* createOscillator, createGain, createBiquadFilter (waterPlop)
SoundNodes == [collision |-> 2, scrollWhoosh |-> 3, waterPlop |-> 3]

\* the limits of lines 219, 242 and 260, ms
RateLimit == [collision |-> 24, scrollWhoosh |-> 30, waterPlop |-> 24]

\* the time stamp of the latest accepted call of each kind
LastAt(a) == [collision |-> a.lastCollisionAt, scrollWhoosh |-> a.lastScrollAt,
              waterPlop |-> a.lastWaterAt]

\* a faulty variant of Limited: every call is let through
Limited_Never(t, lastAt, limit) == FALSE

\* if (t - this.lastCollisionAt < 24) return;
Limited(t, lastAt, limit) == t - lastAt < limit

\* ensureContext(): the context and its three gain nodes, made once, if the
\* window has an AudioContext
ensureContext(a) ==
  IF a.context \/ ~a.available THEN a
  ELSE [a EXCEPT !.context = TRUE, !.nodes = @ + 3]

\* the rest of a call of kind k once it is let through: ensureContext(), then
\* the sound unless there is no context
Sound(a, k) ==
  LET b == ensureContext(a)
  IN  IF ~b.context THEN [b EXCEPT !.outcome = "silent"]
      ELSE [b EXCEPT !.nodes = @ + SoundNodes[k], !.started[k] = now,
                     !.count[k] = @ + 1, !.outcome = "sound"]

waterDots == <<mounted, listening, dom, env, particles, raf, mode, timers, frameAt,
               steps, events, lastInteractionAt, probe, hs>>

InitAudio ==
  /\ Boot(<<4, 43>>)
  /\ probe = NoProbe

\* the module is imported: export const audio = new AudioManager() (line 442)
AudioNew(available) ==
  /\ audio.outcome = "none"
  /\ audio' = [audio EXCEPT !.available = available, !.outcome = "new"]
  /\ last' = Did("new")
  /\ UNCHANGED <<waterDots, now>>

collision ==
  /\ audio.outcome # "none"
  /\ audio' = IF Limited(now, audio.lastCollisionAt, 24)
              THEN [audio EXCEPT !.outcome = "limited"]
              ELSE Sound([audio EXCEPT !.lastCollisionAt = now], "collision")
  /\ last' = Did("collision")
  /\ UNCHANGED <<waterDots, now>>

scrollWhoosh ==
  /\ audio.outcome # "none"
  /\ audio' = IF Limited(now, audio.lastScrollAt, 30)
              THEN [audio EXCEPT !.outcome = "limited"]
              ELSE Sound([audio EXCEPT !.lastScrollAt = now], "scrollWhoosh")
  /\ last' = Did("scrollWhoosh")
  /\ UNCHANGED <<waterDots, now>>

waterPlop ==
  /\ audio.outcome # "none"
  /\ audio' = IF Limited(now, audio.lastWaterAt, 24)
              THEN [audio EXCEPT !.outcome = "limited"]
              ELSE Sound([audio EXCEPT !.lastWaterAt = now], "waterPlop")
  /\ last' = Did("waterPlop")
  /\ UNCHANGED <<waterDots, now>>

AudioTick(dt) ==
  /\ now + dt <= MaxAudioTime
  /\ now' = now + dt
  /\ last' = Did("tick")
  /\ UNCHANGED <<waterDots, audio>>

NextAudio ==
  \/ \E available \in BOOLEAN : AudioNew(available)
  \/ collision
  \/ scrollWhoosh
  \/ waterPlop
  \/ \E dt \in AudioTicks : AudioTick(dt)

SpecAudio == InitAudio /\ [][NextAudio]_vars

AudioKinds == {"collision", "scrollWhoosh", "waterPlop"}

\* C30: collision() and waterPlop() start a sound at most once per 24 ms and
\* scrollWhoosh() at most once per 30 ms, and a call that arrives sooner than
\* its limit after the last accepted call of its kind creates no audio node
\* and leaves that call's time stamp as it was.
C30_EffectsRateLimited ==
  /\ [][\A k \in AudioKinds :
          audio'.count[k] # audio.count[k] =>
             /\ audio'.count[k] = audio.count[k] + 1
             /\ audio.started[k] >= 0 => now - audio.started[k] >= RateLimit[k]]_vars
  /\ [][\A k \in AudioKinds :
          (last'.op = k /\ now - LastAt(audio)[k] < RateLimit[k]) =>
             /\ audio'.nodes = audio.nodes
             /\ audio'.context = audio.context
             /\ audio'.count = audio.count
             /\ LastAt(audio') = LastAt(audio)]_vars

\* a collision() 23 ms after one that started a sound has been turned down,
\* after two sounds of scrollWhoosh()
C30_Witness ==
  /\ last.op = "collision"
  /\ audio.outcome = "limited"
  /\ audio.started["collision"] = audio.lastCollisionAt
  /\ now - audio.lastCollisionAt = 23
  /\ audio.count["scrollWhoosh"] = 2

=============================================================================
